---- MODULE Spec2Model ----
(***************************************************************************)
(* Model of main.py: the LaTeX glossary / acronym extractor that writes    *)
(* Anki CSV rows.  Text is a sequence of one-character strings.  Python's  *)
(* 0-based indices are kept: At(text, i) is text[i] and Slice(text, a, b)  *)
(* is text[a:b].                                                           *)
(***************************************************************************)
EXTENDS Integers, Sequences, FiniteSets, TLC

VARIABLES
    pc,               \* position of main (or of the brace-matcher harness)
    input_exists,     \* input_path.exists()
    file_content,     \* content of the input file on disk
    tex_content,      \* the buffer read by main
    pos,              \* scan position of the running extractor loop
    glossary_entries, \* entries list of parse_glossary_entries
    acronym_entries,  \* entries list of parse_acronym_entries
    g_log,            \* history: one record per glossary loop iteration
    a_log,            \* history: one record per acronym loop iteration
    entries,          \* result of parse_all_entries
    out_file,         \* rows of the output file on disk
    out_opened,       \* the output destination has been opened for writing
    exit_code,        \* process exit code, -1 while running
    raised,           \* history: an exception was raised inside the try block
    brace_result      \* result of the last find_matching_brace call

vars == <<pc, input_exists, file_content, tex_content, pos, glossary_entries,
          acronym_entries, g_log, a_log, entries, out_file, out_opened,
          exit_code, raised, brace_result>>

----------------------------------------------------------------------------
(* Bounds *)

MaxLen == 5

MaxPieces == 3

----------------------------------------------------------------------------
(* Python string primitives *)

SetMin(S) == CHOOSE x \in S : \A y \in S : x <= y

At(text, i) == text[i + 1]

Slice(text, a, b) ==
    LET lo == IF a < 0 THEN 0 ELSE a
        hi == IF b > Len(text) THEN Len(text) ELSE b
    IN  IF lo >= hi THEN << >> ELSE SubSeq(text, lo + 1, hi)

HasAt(text, sub, i) ==
    /\ i >= 0
    /\ i + Len(sub) <= Len(text)
    /\ \A k \in 1..Len(sub) : text[i + k] = sub[k]

\* str.find(sub, start): lowest index >= start where sub occurs, else -1
StrFind(text, sub, start) ==
    LET S == {i \in start..(Len(text) - Len(sub)) : HasAt(text, sub, i)}
    IN  IF S = {} THEN -1 ELSE SetMin(S)

\* re.search of a literal pattern: match.start(), or -1 when there is no match
ReSearchLiteral(pattern, text) == StrFind(text, pattern, 0)

NoneVal == <<"None">>

Truthy(x) == x # NoneVal /\ x # << >>

WhiteSpace == {" ", "\n", "\t"}

Letters ==
    {"a","b","c","d","e","f","g","h","i","j","k","l","m","n","o","p","q","r",
     "s","t","u","v","w","x","y","z","A","B","C","D","E","F","G","H","I","J",
     "K","L","M","N","O","P","Q","R","S","T","U","V","W","X","Y","Z"}

\* index where the run of characters outside stop that starts at i ends
RunEnd(text, i, stop) ==
    IF i >= Len(text) THEN i
    ELSE CHOOSE j \in i..Len(text) :
             /\ j = Len(text) \/ At(text, j) \in stop
             /\ \A h \in i..(j - 1) : At(text, h) \notin stop

\* index where the run of characters of allowed that starts at i ends
RunEndIn(text, i, allowed) ==
    IF i >= Len(text) THEN i
    ELSE CHOOSE j \in i..Len(text) :
             /\ j = Len(text) \/ At(text, j) \notin allowed
             /\ \A h \in i..(j - 1) : At(text, h) \in allowed

\* index where the run of whitespace (\s*) that starts at i ends
SkipSpace(text, i) == RunEndIn(text, i, WhiteSpace)

\* str.strip()
Strip(text) ==
    LET S == {j \in 0..(Len(text) - 1) : At(text, j) \notin WhiteSpace}
    IN  IF S = {} THEN << >>
        ELSE Slice(text, SetMin(S), (CHOOSE x \in S : \A y \in S : y <= x) + 1)

----------------------------------------------------------------------------
(* clean_latex_text *)

\* r'\s+'
SpaceRunEnd(text, i) ==
    IF At(text, i) \in WhiteSpace THEN SkipSpace(text, i) ELSE -1

OneSpace(text, i, e) == <<" ">>

TextbfOpen == <<"\\","t","e","x","t","b","f","{">>

EmphOpen == <<"\\","e","m","p","h","{">>

Dots == <<"\\","d","o","t","s">>

Ldots == <<"\\","l","d","o","t","s">>

Ellipsis == <<".",".",".">>

\* open + r'([^}]+)\}'
WrappedEnd(text, i, open) ==
    LET e == RunEnd(text, i + Len(open), {"}"})
    IN  IF HasAt(text, open, i) /\ e > i + Len(open) /\ e < Len(text)
        THEN e + 1
        ELSE -1

TextbfEnd(text, i) == WrappedEnd(text, i, TextbfOpen)

\* r'<b>\1</b>'
TextbfRepl(text, i, e) ==
    <<"<","b",">">> \o Slice(text, i + Len(TextbfOpen), e - 1) \o <<"<","/","b",">">>

EmphEnd(text, i) == WrappedEnd(text, i, EmphOpen)

\* r'<i>\1</i>'
EmphRepl(text, i, e) ==
    <<"<","i",">">> \o Slice(text, i + Len(EmphOpen), e - 1) \o <<"<","/","i",">">>

DotsEnd(text, i) == IF HasAt(text, Dots, i) THEN i + Len(Dots) ELSE -1

LdotsEnd(text, i) == IF HasAt(text, Ldots, i) THEN i + Len(Ldots) ELSE -1

EllipsisRepl(text, i, e) == Ellipsis

\* r'\\([a-zA-Z]+)'
CommandEnd(text, i) ==
    LET letters_end == RunEndIn(text, i + 1, Letters)
    IN  IF At(text, i) = "\\" /\ letters_end > i + 1 THEN letters_end ELSE -1

\* r'\1'
CommandRepl(text, i, e) == Slice(text, i + 1, e)

\* end of the match of a rule's pattern at index i, or -1
MatchEnd(rule, text, i) ==
    CASE rule = "space" -> SpaceRunEnd(text, i)
      [] rule = "textbf" -> TextbfEnd(text, i)
      [] rule = "emph" -> EmphEnd(text, i)
      [] rule = "dots" -> DotsEnd(text, i)
      [] rule = "ldots" -> LdotsEnd(text, i)
      [] rule = "command" -> CommandEnd(text, i)

\* what a rule puts in place of its match text[i:e]
Repl(rule, text, i, e) ==
    CASE rule = "space" -> OneSpace(text, i, e)
      [] rule = "textbf" -> TextbfRepl(text, i, e)
      [] rule = "emph" -> EmphRepl(text, i, e)
      [] rule = "dots" -> EllipsisRepl(text, i, e)
      [] rule = "ldots" -> EllipsisRepl(text, i, e)
      [] rule = "command" -> CommandRepl(text, i, e)

\* re.sub: the scan goes through the indexes lo..hi-1 in order (the range is
\* halved to keep the evaluation shallow); st.next is where the search for the
\* next match resumes and st.out the output so far.
RECURSIVE SubScan(_, _, _, _, _)
SubScan(rule, text, st, lo, hi) ==
    IF lo >= hi THEN st
    ELSE IF hi = lo + 1
    THEN IF lo < st.next THEN st
         ELSE LET e == MatchEnd(rule, text, lo)
              IN  IF e = -1
                  THEN [next |-> lo + 1, out |-> Append(st.out, At(text, lo))]
                  ELSE [next |-> e, out |-> st.out \o Repl(rule, text, lo, e)]
    ELSE LET mid == (lo + hi) \div 2
             left == SubScan(rule, text, st, lo, mid)
         IN  IF left.next >= hi THEN left
             ELSE SubScan(rule, text, left, mid, hi)

ReSub(rule, text) ==
    SubScan(rule, text, [next |-> 0, out |-> << >>], 0, Len(text)).out

clean_latex_text(text) ==
    IF ~Truthy(text) THEN << >>
    ELSE LET t1 == ReSub("space", Strip(text))
             t2 == ReSub("textbf", t1)
             t3 == ReSub("emph", t2)
             t4 == ReSub("dots", t3)
             t5 == ReSub("ldots", t4)
             t6 == ReSub("command", t5)
         IN  Strip(t6)

----------------------------------------------------------------------------
(* find_matching_brace *)

\* the body of "while pos < len(text) and brace_count > 0" at index i
BraceStep(text, st, i) ==
    IF st.pos < Len(text) /\ st.brace_count > 0
    THEN [pos |-> st.pos + 1,
          brace_count |-> IF At(text, st.pos) = "{" THEN st.brace_count + 1
                          ELSE IF At(text, st.pos) = "}" THEN st.brace_count - 1
                          ELSE st.brace_count]
    ELSE st

\* the while loop run through the indexes lo..hi-1 in order (the range is
\* halved to keep the evaluation shallow)
RECURSIVE BraceLoop(_, _, _, _)
BraceLoop(text, st, lo, hi) ==
    IF lo >= hi THEN st
    ELSE IF hi = lo + 1 THEN BraceStep(text, st, lo)
    ELSE LET mid == (lo + hi) \div 2
             left == BraceLoop(text, st, lo, mid)
         IN  IF left.brace_count = 0 THEN left
             ELSE BraceLoop(text, left, mid, hi)

\* mutant: the scan stops at the first closing brace, ignoring nesting
find_matching_brace_first_close(text, start_pos) ==
    IF start_pos >= Len(text) \/ At(text, start_pos) # "{"
    THEN -1
    ELSE StrFind(text, <<"}">>, start_pos + 1)

find_matching_brace(text, start_pos) ==
    IF start_pos >= Len(text) \/ At(text, start_pos) # "{"
    THEN -1
    ELSE LET st == BraceLoop(text, [pos |-> start_pos + 1, brace_count |-> 1],
                             start_pos + 1, Len(text))
         IN  IF st.brace_count = 0 THEN st.pos - 1 ELSE -1

----------------------------------------------------------------------------
(* parse_glossary_entries *)

GlossaryPattern == <<"\\","n","e","w","g","l","o","s","s","a","r","y","e","n","t","r","y">>

NameWord == <<"n","a","m","e">>

DescriptionWord == <<"d","e","s","c","r","i","p","t","i","o","n">>

Entry(name, description) == [name |-> name, description |-> description]

\* r'name\s*=\s*\{([^}]*)\}|name\s*=\s*([^,}]+)' tried at index i; value is
\* group(1) when the first alternative matches, else group(2).  In the second
\* alternative \s* gives back its last whitespace character when nothing else
\* is left for [^,}]+ to match.
NameMatchAt(params, i) ==
    LET j == SkipSpace(params, i + Len(NameWord))
        k == SkipSpace(params, j + 1)
        close == StrFind(params, <<"}">>, k + 1)
        run_end == RunEnd(params, k, {",", "}"})
    IN  IF ~HasAt(params, NameWord, i) \/ ~HasAt(params, <<"=">>, j)
        THEN [matched |-> FALSE, value |-> NoneVal]
        ELSE IF HasAt(params, <<"{">>, k) /\ close # -1
        THEN [matched |-> TRUE, value |-> Slice(params, k + 1, close)]
        ELSE IF run_end > k
        THEN [matched |-> TRUE, value |-> Slice(params, k, run_end)]
        ELSE IF k > j + 1
        THEN [matched |-> TRUE, value |-> Slice(params, k - 1, k)]
        ELSE [matched |-> FALSE, value |-> NoneVal]

\* name_match = re.search(...); name = group(1) or group(2), stripped when truthy
ParseName(params) ==
    LET S == {i \in 0..(Len(params) - 1) : NameMatchAt(params, i).matched}
    IN  IF S = {} THEN NoneVal
        ELSE LET name == NameMatchAt(params, SetMin(S)).value
             IN  IF Truthy(name) THEN Strip(name) ELSE name

\* r'description\s*=\s*\{' tried at index i: match.end(), or -1
DescMatchEndAt(params, i) ==
    LET j == SkipSpace(params, i + Len(DescriptionWord))
        k == SkipSpace(params, j + 1)
    IN  IF /\ HasAt(params, DescriptionWord, i)
           /\ HasAt(params, <<"=">>, j)
           /\ HasAt(params, <<"{">>, k)
        THEN k + 1
        ELSE -1

\* desc_match = re.search(desc_pattern, params) and the brace match that follows
ParseDescription(params) ==
    LET S == {i \in 0..(Len(params) - 1) : DescMatchEndAt(params, i) # -1}
    IN  IF S = {} THEN NoneVal
        ELSE LET desc_start == DescMatchEndAt(params, SetMin(S)) - 1
                 desc_end == find_matching_brace(params, desc_start)
             IN  IF desc_end # -1
                 THEN Strip(Slice(params, desc_start + 1, desc_end))
                 ELSE NoneVal

\* mutant: the emptiness test of the entry is dropped
GlossaryEmitUnchecked(name, description) ==
    <<Entry(clean_latex_text(name), clean_latex_text(description))>>

\* "if name and description": the cleaned entry, or nothing
GlossaryEmit(name, description) ==
    IF Truthy(name) /\ Truthy(description)
    THEN <<Entry(clean_latex_text(name), clean_latex_text(description))>>
    ELSE << >>

\* mutant: the key is never used as the fallback name
ResolveNameNoFallback(name, key) == name

\* "if not name: name = key"
ResolveName(name, key) == IF ~Truthy(name) THEN key ELSE name

\* mutant: the scan resumes right after the command name
PosPastGroupStale(start_pos, group_end) == start_pos + Len(GlossaryPattern)

\* "pos = start_pos + (params_end - start_pos) + 1"
PosPastGroup(start_pos, group_end) == start_pos + (group_end - start_pos) + 1

\* mutant: a skipped occurrence leaves the scan position at the match start
PosPastCommandStale(p, match_start, pattern) == p + match_start

\* "pos = pos + match.end()"
PosPastCommand(p, match_start, pattern) == p + match_start + Len(pattern)

NoMatch == [matched |-> FALSE, start_pos |-> -1, consumed |-> FALSE,
            group_end |-> -1, emitted |-> << >>, pos |-> -1]

Skipped(start_pos, new_pos) ==
    [matched |-> TRUE, start_pos |-> start_pos, consumed |-> FALSE,
     group_end |-> -1, emitted |-> << >>, pos |-> new_pos]

Consumed(start_pos, group_end, emitted, new_pos) ==
    [matched |-> TRUE, start_pos |-> start_pos, consumed |-> TRUE,
     group_end |-> group_end, emitted |-> emitted, pos |-> new_pos]

\* one iteration of the while loop of parse_glossary_entries
GlossaryIteration(text, p) ==
    LET m == ReSearchLiteral(GlossaryPattern, Slice(text, p, Len(text)))
        start_pos == p + m
        pos1 == PosPastCommand(p, m, GlossaryPattern)
        first_brace == StrFind(text, <<"{">>, start_pos)
        key_end == find_matching_brace(text, first_brace)
        key == Strip(Slice(text, first_brace + 1, key_end))
        second_brace == StrFind(text, <<"{">>, key_end + 1)
        params_end == find_matching_brace(text, second_brace)
        params == Slice(text, second_brace + 1, params_end)
        name == ResolveName(ParseName(params), key)
        description == ParseDescription(params)
    IN  IF m = -1 THEN NoMatch
        ELSE IF first_brace = -1 THEN Skipped(start_pos, pos1)
        ELSE IF key_end = -1 THEN Skipped(start_pos, pos1)
        ELSE IF second_brace = -1 THEN Skipped(start_pos, pos1)
        ELSE IF params_end = -1 THEN Skipped(start_pos, pos1)
        ELSE Consumed(start_pos, params_end, GlossaryEmit(name, description),
                      PosPastGroup(start_pos, params_end))

----------------------------------------------------------------------------
(* parse_acronym_entries *)

AcronymPattern == <<"\\","n","e","w","a","c","r","o","n","y","m">>

\* mutant: the key is emitted as the name
AcronymEmitKey(key, short_form, long_form) ==
    IF Truthy(key) /\ Truthy(long_form) THEN <<Entry(key, long_form)>> ELSE << >>

\* "if short_form and long_form" on the cleaned forms
AcronymEmit(key, short_form, long_form) ==
    IF Truthy(short_form) /\ Truthy(long_form)
    THEN <<Entry(short_form, long_form)>>
    ELSE << >>

\* one iteration of the while loop of parse_acronym_entries
AcronymIteration(text, p) ==
    LET m == ReSearchLiteral(AcronymPattern, Slice(text, p, Len(text)))
        start_pos == p + m
        pos1 == PosPastCommand(p, m, AcronymPattern)
        first_brace == StrFind(text, <<"{">>, start_pos)
        key_end == find_matching_brace(text, first_brace)
        key == Strip(Slice(text, first_brace + 1, key_end))
        second_brace == StrFind(text, <<"{">>, key_end + 1)
        short_end == find_matching_brace(text, second_brace)
        short_form == clean_latex_text(Strip(Slice(text, second_brace + 1, short_end)))
        third_brace == StrFind(text, <<"{">>, short_end + 1)
        long_end == find_matching_brace(text, third_brace)
        long_form == clean_latex_text(Strip(Slice(text, third_brace + 1, long_end)))
    IN  IF m = -1 THEN NoMatch
        ELSE IF first_brace = -1 THEN Skipped(start_pos, pos1)
        ELSE IF key_end = -1 THEN Skipped(start_pos, pos1)
        ELSE IF second_brace = -1 THEN Skipped(start_pos, pos1)
        ELSE IF short_end = -1 THEN Skipped(start_pos, pos1)
        ELSE IF third_brace = -1 THEN Skipped(start_pos, pos1)
        ELSE IF long_end = -1 THEN Skipped(start_pos, pos1)
        ELSE Consumed(start_pos, long_end, AcronymEmit(key, short_form, long_form),
                      PosPastGroup(start_pos, long_end))

----------------------------------------------------------------------------
(* parse_all_entries and write_anki_csv *)

\* mutant: the two groups are concatenated in the opposite order
parse_all_entries_swapped(glossary, acronym) == acronym \o glossary

parse_all_entries(glossary, acronym) == glossary \o acronym

\* number of quote characters among the first k characters of the field
QuotesUpTo(field, k) == Cardinality({h \in 1..k : field[h] = "\""})

\* doublequote=True: every quote character of the field is written twice
DoubleQuotes(field) ==
    [j \in 1..(Len(field) + QuotesUpTo(field, Len(field))) |->
        field[CHOOSE k \in 1..Len(field) :
                  k + QuotesUpTo(field, k - 1) <= j /\ j <= k + QuotesUpTo(field, k)]]

\* csv.writer, default dialect: a field holding the delimiter, the quote
\* character or a line break is quoted and its quote characters are doubled
CsvField(field) ==
    IF \E k \in 1..Len(field) : field[k] \in {",", "\"", "\n", "\r"}
    THEN <<"\"">> \o DoubleQuotes(field) \o <<"\"">>
    ELSE field

\* writer.writerow([entry['name'], entry['description']])
CsvRow(entry) ==
    CsvField(entry.name) \o <<",">> \o CsvField(entry.description) \o <<"\r", "\n">>

----------------------------------------------------------------------------
(* main: the pipeline, one action per step *)

OldRows == << <<"o","l","d","\r","\n">> >>

InitPipeline(buffers) ==
    /\ pc = "main"
    /\ \/ input_exists = TRUE /\ file_content \in buffers
       \/ input_exists = FALSE /\ file_content = << >>
    /\ tex_content = << >>
    /\ pos = 0
    /\ brace_result = -1
    /\ glossary_entries = << >>
    /\ acronym_entries = << >>
    /\ g_log = << >>
    /\ a_log = << >>
    /\ entries = << >>
    /\ out_file = OldRows
    /\ out_opened = FALSE
    /\ exit_code = -1
    /\ raised = FALSE

\* sys.exit(code)
Exit(code) == exit_code' = code /\ pc' = "exited"

\* mutant: the handler reports the error and lets main return normally
RaiseSwallowed == raised' = TRUE /\ Exit(0)

\* "except Exception as e: ... sys.exit(1)"
Raise == raised' = TRUE /\ Exit(1)

\* "if not input_path.exists(): ... sys.exit(1)"
CheckInput ==
    /\ pc = "main"
    /\ IF ~input_exists THEN Exit(1) ELSE pc' = "read" /\ UNCHANGED exit_code
    /\ UNCHANGED <<input_exists, file_content, tex_content, pos, glossary_entries,
                   acronym_entries, g_log, a_log, entries, out_file, out_opened,
                   raised, brace_result>>

\* "with open(input_path, 'r', ...) as file: tex_content = file.read()"
ReadFile ==
    /\ pc = "read"
    /\ \/ /\ tex_content' = file_content
          /\ pc' = "parse_glossary_entries"
          /\ UNCHANGED <<exit_code, raised>>
       \/ /\ Raise
          /\ UNCHANGED tex_content
    /\ UNCHANGED <<input_exists, file_content, pos, glossary_entries,
                   acronym_entries, g_log, a_log, entries, out_file, out_opened,
                   brace_result>>

LogRecord(it, from) ==
    [from |-> from, start_pos |-> it.start_pos, consumed |-> it.consumed,
     group_end |-> it.group_end, emitted |-> it.emitted, pos |-> it.pos]

\* one pass through the loop body of parse_glossary_entries, or its break
GlossaryStep ==
    /\ pc = "parse_glossary_entries"
    /\ LET it == GlossaryIteration(tex_content, pos)
       IN  IF ~it.matched
           THEN /\ pc' = "parse_acronym_entries"
                /\ pos' = 0
                /\ UNCHANGED <<glossary_entries, g_log>>
           ELSE /\ pos' = it.pos
                /\ glossary_entries' = glossary_entries \o it.emitted
                /\ g_log' = Append(g_log, LogRecord(it, pos))
                /\ UNCHANGED pc
    /\ UNCHANGED <<input_exists, file_content, tex_content, acronym_entries, a_log,
                   entries, out_file, out_opened, exit_code, raised, brace_result>>

\* one pass through the loop body of parse_acronym_entries, or its break
AcronymStep ==
    /\ pc = "parse_acronym_entries"
    /\ LET it == AcronymIteration(tex_content, pos)
       IN  IF ~it.matched
           THEN /\ pc' = "parse_all_entries"
                /\ pos' = 0
                /\ UNCHANGED <<acronym_entries, a_log>>
           ELSE /\ pos' = it.pos
                /\ acronym_entries' = acronym_entries \o it.emitted
                /\ a_log' = Append(a_log, LogRecord(it, pos))
                /\ UNCHANGED pc
    /\ UNCHANGED <<input_exists, file_content, tex_content, glossary_entries, g_log,
                   entries, out_file, out_opened, exit_code, raised, brace_result>>

\* mutant: the zero-entries test always passes
EntriesFoundAlways(es) == TRUE

\* "if not entries" is false
EntriesFound(es) == es # << >>

\* "entries = parse_all_entries(tex_content); if not entries: ... sys.exit(1)"
ParseAllReturn ==
    /\ pc = "parse_all_entries"
    /\ entries' = parse_all_entries(glossary_entries, acronym_entries)
    /\ IF ~EntriesFound(entries') THEN Exit(1) ELSE pc' = "write_anki_csv" /\ UNCHANGED exit_code
    /\ UNCHANGED <<input_exists, file_content, tex_content, pos, glossary_entries,
                   acronym_entries, g_log, a_log, out_file, out_opened, raised,
                   brace_result>>

\* "with open(output_file, 'w', ...) as csvfile": truncates, or raises
OpenOutput ==
    /\ pc = "write_anki_csv"
    /\ \/ /\ out_file' = << >>
          /\ out_opened' = TRUE
          /\ pc' = "write_rows"
          /\ UNCHANGED <<exit_code, raised>>
       \/ /\ Raise
          /\ UNCHANGED <<out_file, out_opened>>
    /\ UNCHANGED <<input_exists, file_content, tex_content, pos, glossary_entries,
                   acronym_entries, g_log, a_log, entries, brace_result>>

\* "for entry in entries: writer.writerow(...)": the next row, or an I/O error
WriteRow ==
    /\ pc = "write_rows"
    /\ Len(out_file) < Len(entries)
    /\ \/ /\ out_file' = Append(out_file, CsvRow(entries[Len(out_file) + 1]))
          /\ UNCHANGED <<pc, exit_code, raised>>
       \/ /\ Raise
          /\ UNCHANGED out_file
    /\ UNCHANGED <<input_exists, file_content, tex_content, pos, glossary_entries,
                   acronym_entries, g_log, a_log, entries, out_opened, brace_result>>

\* the loop is over, the file is closed and main returns
Finish ==
    /\ pc = "write_rows"
    /\ Len(out_file) = Len(entries)
    /\ Exit(0)
    /\ UNCHANGED <<input_exists, file_content, tex_content, pos, glossary_entries,
                   acronym_entries, g_log, a_log, entries, out_file, out_opened,
                   raised, brace_result>>

Next ==
    \/ CheckInput
    \/ ReadFile
    \/ GlossaryStep
    \/ AcronymStep
    \/ ParseAllReturn
    \/ OpenOutput
    \/ WriteRow
    \/ Finish

----------------------------------------------------------------------------
(* Input files: concatenations of at most MaxPieces pieces *)

RECURSIVE Flatten(_)
Flatten(seqs) == IF seqs = << >> THEN << >> ELSE Head(seqs) \o Flatten(Tail(seqs))

Buffers(pieces) ==
    {Flatten(ps) : ps \in UNION {[1..n -> pieces] : n \in 0..MaxPieces}}

Braced(text) == <<"{">> \o text \o <<"}">>

Field(word, value) == word \o <<"=">> \o value

K1 == <<"k","1">>

K2 == <<"k","2">>

Foo == <<"F","o","o">>

BarBaz == <<"B","a","r"," ","b","a","z">>

Cpu == <<"c","p","u">>

CPU == <<"C","P","U">>

CentralProcessingUnit ==
    <<"C","e","n","t","r","a","l"," ","P","r","o","c","e","s","s","i","n","g"," ","U","n","i","t">>

DescD == Field(DescriptionWord, Braced(<<"D">>))

FooBarBaz ==
    Field(NameWord, Braced(Foo)) \o <<",">> \o Field(DescriptionWord, Braced(BarBaz))

\* \newglossaryentry{k1}{name={Foo},description={Bar baz}}
GlossaryK1 == GlossaryPattern \o Braced(K1) \o Braced(FooBarBaz)

\* \newglossaryentry{k2}{description={D}}
GlossaryK2 == GlossaryPattern \o Braced(K2) \o Braced(DescD)

\* \newacronym{cpu}{CPU}{Central Processing Unit}
AcronymCpu == AcronymPattern \o Braced(Cpu) \o Braced(CPU) \o Braced(CentralProcessingUnit)

\* \newacronym{cpu}{CPU}{x}
AcronymX == AcronymPattern \o Braced(Cpu) \o Braced(CPU) \o Braced(<<"x">>)

GlossaryPieces ==
    { GlossaryPattern,
      GlossaryPattern \o Braced(K1),
      <<"{">>,
      <<"{", "}">>,
      Braced(Field(DescriptionWord, Braced(<<" ">>))),
      Braced(FooBarBaz),
      Braced(DescD),
      Braced(Field(NameWord, <<" ","x"," ">>) \o <<",">>
             \o Field(DescriptionWord,
                      Braced(TextbfOpen \o <<"a","}">> \o Dots \o <<" "," ","\\","b">>))),
      Braced(Field(NameWord, Braced(<< >>)) \o <<",">>
             \o DescriptionWord \o <<" ","="," ">> \o Braced(<<"D">>)),
      Braced(Field(NameWord, Braced(<<"a","{","b","}","c">>)) \o <<",">> \o DescD) }

InitGlossary == InitPipeline(Buffers(GlossaryPieces))

SpecGlossary == InitGlossary /\ [][Next]_vars

AcronymPieces ==
    { AcronymPattern,
      AcronymPattern \o Braced(Cpu),
      AcronymPattern \o Braced(Cpu) \o Braced(CPU),
      Braced(CPU),
      Braced(CentralProcessingUnit),
      <<"{">>,
      Braced(<<" ">>),
      <<" ">>,
      Braced(EmphOpen \o <<"a","}"," "," ">> \o Ldots),
      Braced(AcronymX) }

InitAcronym == InitPipeline(Buffers(AcronymPieces))

SpecAcronym == InitAcronym /\ [][Next]_vars

MainPieces ==
    { GlossaryK1,
      AcronymCpu,
      GlossaryPattern \o Braced(K1) \o Braced(<< >>)
          \o GlossaryPattern \o Braced(K1) \o Braced(Field(DescriptionWord, Braced(<< >>)))
          \o AcronymPattern \o Braced(<<"a">>) \o Braced(<<" ">>) \o Braced(<<"x">>)
          \o GlossaryPattern \o <<" ">> \o AcronymPattern \o <<"{">>,
      GlossaryPattern \o Braced(K1) \o Braced(Field(DescriptionWord, Braced(GlossaryK2))),
      AcronymPattern \o Braced(<<"a">>) \o Braced(<<"b",","," ","\"","c","\"">>)
          \o Braced(AcronymX) }

Init == InitPipeline(Buffers(MainPieces))

Spec == Init /\ [][Next]_vars

----------------------------------------------------------------------------
(* Harness for find_matching_brace: every buffer over a three-letter       *)
(* alphabet up to MaxLen, every index up to one past the longest buffer.   *)

BraceAlphabet == {"{", "}", "a"}

BraceTexts == UNION {[1..n -> BraceAlphabet] : n \in 0..MaxLen}

InitBrace ==
    /\ pc = "call_find_matching_brace"
    /\ tex_content \in BraceTexts
    /\ pos \in 0..(MaxLen + 1)
    /\ brace_result = -1
    /\ input_exists = TRUE
    /\ file_content = << >>
    /\ glossary_entries = << >>
    /\ acronym_entries = << >>
    /\ g_log = << >>
    /\ a_log = << >>
    /\ entries = << >>
    /\ out_file = << >>
    /\ out_opened = FALSE
    /\ exit_code = -1
    /\ raised = FALSE

CallFindMatchingBrace ==
    /\ pc = "call_find_matching_brace"
    /\ brace_result' = find_matching_brace(tex_content, pos)
    /\ pc' = "find_matching_brace_returned"
    /\ UNCHANGED <<input_exists, file_content, tex_content, pos, glossary_entries,
                   acronym_entries, g_log, a_log, entries, out_file, out_opened,
                   exit_code, raised>>

NextBrace == CallFindMatchingBrace

SpecBrace == InitBrace /\ [][NextBrace]_vars

\* nesting depth after reading text[i..j]: 1 at i, +1 per "{", -1 per "}"
Depth(text, i, j) ==
    Cardinality({k \in i..j : At(text, k) = "{"})
        - Cardinality({k \in i..j : At(text, k) = "}"})

Closers(text, i) ==
    {j \in (i + 1)..(Len(text) - 1) : At(text, j) = "}" /\ Depth(text, i, j) = 0}

\* C1: find_matching_brace(text, i) is the first later "}" that brings the
\* nesting depth to 0 when text[i] is "{" and such a "}" exists, and -1 when
\* text[i] is not "{", i is past the end, or the depth never reaches 0.
C1_BraceMatcher ==
    pc = "find_matching_brace_returned" =>
        IF /\ pos < Len(tex_content)
           /\ At(tex_content, pos) = "{"
           /\ Closers(tex_content, pos) # {}
        THEN brace_result = SetMin(Closers(tex_content, pos))
        ELSE brace_result = -1

\* "{{}}" at index 0 gives 3
C1_Witness ==
    /\ pc = "find_matching_brace_returned"
    /\ tex_content = <<"{", "{", "}", "}">>
    /\ pos = 0
    /\ brace_result = 3

----------------------------------------------------------------------------
(* What an occurrence should yield, stated from the text alone *)

NonBlank(text) == \E k \in 1..Len(text) : text[k] \notin WhiteSpace

AllSpace(text, a, b) == \A k \in a..(b - 1) : At(text, k) \in WhiteSpace

\* first opening brace at or after index i, else -1
NextOpen(text, i) ==
    IF \E j \in i..(Len(text) - 1) : At(text, j) = "{"
    THEN CHOOSE j \in i..(Len(text) - 1) :
             At(text, j) = "{" /\ \A h \in i..(j - 1) : At(text, h) # "{"
    ELSE -1

\* the closing brace that balances the opening brace at i, else -1
MatchClose(text, i) ==
    IF i = -1 \/ Closers(text, i) = {} THEN -1 ELSE SetMin(Closers(text, i))

\* the first n brace groups found from index from on, each one starting at the
\* first opening brace after the previous one's close; shorter when one is missing
RECURSIVE LocateGroups(_, _, _)
LocateGroups(text, from, n) ==
    IF n = 0 THEN << >>
    ELSE LET o == NextOpen(text, from)
             c == MatchClose(text, o)
         IN  IF o = -1 \/ c = -1 THEN << >>
             ELSE <<[open |-> o, close |-> c]>> \o LocateGroups(text, c + 1, n - 1)

GroupText(text, g) == Slice(text, g.open + 1, g.close)

\* indexes of the "=" of a  word\s*=  that starts at i (at most one)
EqualsOf(text, word, i) ==
    {j \in 0..(Len(text) - 1) :
        HasAt(text, word, i) /\ j >= i + Len(word)
            /\ AllSpace(text, i + Len(word), j) /\ At(text, j) = "="}

\* first index at or after i that holds no whitespace (the length when there is none)
SkipBlank(text, i) ==
    CHOOSE k \in i..Len(text) :
        AllSpace(text, i, k) /\ (k = Len(text) \/ At(text, k) \notin WhiteSpace)

AfterSpace(text, j) == SkipBlank(text, j + 1)

\* indexes of a  description\s*=\s*{  marker
DescMarkers(params) ==
    {i \in 0..(Len(params) - 1) :
        \E j \in EqualsOf(params, DescriptionWord, i) :
            AfterSpace(params, j) < Len(params) /\ At(params, AfterSpace(params, j)) = "{"}

HasDescription(params) == DescMarkers(params) # {}

\* text enclosed by the brace matching the one of the first description marker
DescBody(params) ==
    LET i == SetMin(DescMarkers(params))
        j == CHOOSE x \in EqualsOf(params, DescriptionWord, i) : TRUE
        k == AfterSpace(params, j)
    IN  Slice(params, k + 1, MatchClose(params, k))

\* value of a name= field whose "=" is at j: the text up to the first closing
\* brace when brace-delimited, else the bare run up to the next comma or brace
NameFieldValue(params, j) ==
    LET k == AfterSpace(params, j)
        closes == {c \in (k + 1)..(Len(params) - 1) : At(params, c) = "}"}
        stops == {c \in k..(Len(params) - 1) : At(params, c) \in {",", "}"}}
    IN  IF k < Len(params) /\ At(params, k) = "{" /\ closes # {}
        THEN Slice(params, k + 1, SetMin(closes))
        ELSE Slice(params, k, IF stops = {} THEN Len(params) ELSE SetMin(stops))

\* indexes where the name pattern matches: the value is brace-delimited, or the
\* bare run is not empty, or whitespace follows the "="
NameFields(params) ==
    {i \in 0..(Len(params) - 1) :
        \E j \in EqualsOf(params, NameWord, i) :
            LET k == AfterSpace(params, j)
            IN  \/ k > j + 1
                \/ k < Len(params) /\ At(params, k) \notin {",", "}"}}

FirstNameValue(params) ==
    LET i == SetMin(NameFields(params))
        j == CHOOSE x \in EqualsOf(params, NameWord, i) : TRUE
    IN  NameFieldValue(params, j)

\* the name of a glossary occurrence: the first name= value, or the key when
\* there is none or it is blank
ExpectedName(key, params) ==
    IF NameFields(params) # {} /\ NonBlank(FirstNameValue(params))
    THEN FirstNameValue(params)
    ELSE key

GlossaryExpected(text, s) ==
    LET gs == LocateGroups(text, s, 2)
        key == GroupText(text, gs[1])
        params == GroupText(text, gs[2])
    IN  IF /\ Len(gs) = 2
           /\ HasDescription(params)
           /\ NonBlank(DescBody(params))
           /\ NonBlank(ExpectedName(key, params))
        THEN <<Entry(clean_latex_text(ExpectedName(key, params)),
                     clean_latex_text(DescBody(params)))>>
        ELSE << >>

AcronymExpected(text, s) ==
    LET gs == LocateGroups(text, s, 3)
    IN  IF /\ Len(gs) = 3
           /\ NonBlank(GroupText(text, gs[2]))
           /\ NonBlank(GroupText(text, gs[3]))
        THEN <<Entry(clean_latex_text(GroupText(text, gs[2])),
                     clean_latex_text(GroupText(text, gs[3])))>>
        ELSE << >>

Emitted(log) == Flatten([i \in 1..Len(log) |-> log[i].emitted])

----------------------------------------------------------------------------
(* Claims *)

\* C3 (amended): an occurrence of the glossary command whose key group and
\* parameter block are both located and balanced emits exactly one entry when
\* the parameter block holds a description marker with a non-blank body and the
\* resolved name is non-blank, and no entry otherwise; the description is the
\* normalised text enclosed by the brace matching the one of the first
\* description marker; the name is the normalised value of the first name=
\* field (up to the first closing brace, or a bare run up to the next comma or
\* closing brace) when that value is non-blank, and the normalised key when
\* there is no name= field or its value is blank.
C3_GlossaryExtraction ==
    pc = "parse_glossary_entries" =>
        /\ \A i \in 1..Len(g_log) :
              /\ HasAt(tex_content, GlossaryPattern, g_log[i].start_pos)
              /\ g_log[i].emitted = GlossaryExpected(tex_content, g_log[i].start_pos)
        /\ glossary_entries = Emitted(g_log)

\* \newglossaryentry{k1}{name={Foo},description={Bar baz}} yields ("Foo", "Bar baz")
C3_Witness ==
    /\ pc = "parse_acronym_entries"
    /\ tex_content = GlossaryK1
    /\ glossary_entries = <<Entry(Foo, BarBaz)>>

\* C3 as stated: every occurrence with a balanced key group and a balanced
\* parameter block holding description={...} with a non-blank body emits exactly
\* one entry, named by the name= field when present and by the key otherwise.
C3_Original ==
    pc = "parse_glossary_entries" => \A i \in 1..Len(g_log) :
        LET gs == LocateGroups(tex_content, g_log[i].start_pos, 2)
            key == GroupText(tex_content, gs[1])
            params == GroupText(tex_content, gs[2])
        IN  (Len(gs) = 2 /\ HasDescription(params) /\ NonBlank(DescBody(params)))
            => /\ Len(g_log[i].emitted) = 1
               /\ g_log[i].emitted[1].description = clean_latex_text(DescBody(params))
               /\ g_log[i].emitted[1].name =
                      IF NameFields(params) # {}
                      THEN clean_latex_text(FirstNameValue(params))
                      ELSE clean_latex_text(key)

\* C4: an occurrence of the acronym command whose three brace groups are each
\* located (first opening brace after the previous close) and balanced, with
\* short and long forms that are not blank, emits exactly one entry, (normalised
\* short form, normalised long form); the key is not part of it; an occurrence
\* with a group missing or unbalanced, or a blank form, emits nothing.
C4_AcronymExtraction ==
    pc = "parse_acronym_entries" =>
        /\ \A i \in 1..Len(a_log) :
              /\ HasAt(tex_content, AcronymPattern, a_log[i].start_pos)
              /\ a_log[i].emitted = AcronymExpected(tex_content, a_log[i].start_pos)
        /\ acronym_entries = Emitted(a_log)

\* \newacronym{cpu}{CPU}{Central Processing Unit} yields ("CPU", "Central Processing Unit")
C4_Witness ==
    /\ pc = "parse_all_entries"
    /\ tex_content = AcronymCpu
    /\ acronym_entries = <<Entry(CPU, CentralProcessingUnit)>>

----------------------------------------------------------------------------
(* Well-formed occurrences, stated from the text alone *)

Occurrences(text, pattern) ==
    {s \in 0..(Len(text) - Len(pattern)) : HasAt(text, pattern, s)}

\* n balanced brace groups in a row from index from on, only whitespace between
\* them; shorter when one is missing
RECURSIVE AdjacentGroups(_, _, _)
AdjacentGroups(text, from, n) ==
    IF n = 0 THEN << >>
    ELSE LET o == SkipBlank(text, from)
             c == MatchClose(text, o)
         IN  IF o >= Len(text) \/ At(text, o) # "{" \/ c = -1 THEN << >>
             ELSE <<[open |-> o, close |-> c]>> \o AdjacentGroups(text, c + 1, n - 1)

WellFormedGlossaryAt(text, s) ==
    LET gs == AdjacentGroups(text, s + Len(GlossaryPattern), 2)
        key == GroupText(text, gs[1])
        params == GroupText(text, gs[2])
    IN  /\ Len(gs) = 2
        /\ HasDescription(params)
        /\ NonBlank(DescBody(params))
        /\ NonBlank(ExpectedName(key, params))

WellFormedAcronymAt(text, s) ==
    LET gs == AdjacentGroups(text, s + Len(AcronymPattern), 3)
    IN  /\ Len(gs) = 3
        /\ NonBlank(GroupText(text, gs[2]))
        /\ NonBlank(GroupText(text, gs[3]))

\* s lies inside the groups of a well-formed occurrence that starts before it
Nested(text, s, pattern, n) ==
    \E t \in Occurrences(text, pattern) :
        LET gs == AdjacentGroups(text, t + Len(pattern), n)
        IN  Len(gs) = n /\ t < s /\ s < gs[n].close

\* every entry of the log comes from a well-formed occurrence, and every
\* well-formed occurrence outside the groups of another one has its own entry
WellFormedAt(text, s, pattern) ==
    IF pattern = GlossaryPattern
    THEN WellFormedGlossaryAt(text, s)
    ELSE WellFormedAcronymAt(text, s)

ScanTolerant(text, log, pattern, n) ==
    /\ \A i \in 1..Len(log) :
          log[i].emitted # << >> => WellFormedAt(text, log[i].start_pos, pattern)
    /\ \A s \in Occurrences(text, pattern) :
          (WellFormedAt(text, s, pattern) /\ ~Nested(text, s, pattern, n))
              => \E i \in 1..Len(log) :
                     log[i].start_pos = s /\ log[i].emitted # << >>

\* C2: a malformed occurrence of the command (no opening brace after it, an
\* unmatched brace, a missing group, a missing description) contributes no
\* entry, and every well-formed occurrence that begins later still yields its
\* own entry.
C2_MalformedSkipped ==
    pc = "parse_all_entries" =>
        /\ ScanTolerant(tex_content, g_log, GlossaryPattern, 2)
        /\ ScanTolerant(tex_content, a_log, AcronymPattern, 3)

Range(seq) == {seq[i] : i \in 1..Len(seq)}

\* C5: every entry returned by the two extractors and handed to the writer has
\* a non-empty name and a non-empty description; a glossary occurrence with no
\* description marker, or with an empty description body, yields no entry.
C5_NonEmptyEntries ==
    /\ \A e \in Range(glossary_entries) \cup Range(acronym_entries) \cup Range(entries) :
          e.name # << >> /\ e.description # << >>
    /\ pc = "parse_all_entries" =>
          \A i \in 1..Len(g_log) :
              LET gs == LocateGroups(tex_content, g_log[i].start_pos, 2)
                  params == GroupText(tex_content, gs[2])
              IN  (Len(gs) < 2 \/ ~HasDescription(params) \/ DescBody(params) = << >>)
                      => g_log[i].emitted = << >>

\* a run that wrote rows although one glossary occurrence with both groups
\* found had no description to emit
C5_Witness ==
    /\ pc = "exited"
    /\ exit_code = 0
    /\ \E i \in 1..Len(g_log) : g_log[i].consumed /\ g_log[i].emitted = << >>
    /\ \E i \in 1..Len(a_log) : a_log[i].consumed /\ a_log[i].emitted = << >>

StartsIncrease(log) ==
    \A i, j \in 1..Len(log) : i < j => log[i].start_pos < log[j].start_pos

\* C6: the entries handed to the writer are the glossary entries followed by
\* the acronym entries, each group in the order of its commands in the source,
\* duplicates kept, and the writer emits one row per entry in that order.
C6_OutputOrder ==
    (pc = "exited" /\ exit_code = 0) =>
        /\ entries = Emitted(g_log) \o Emitted(a_log)
        /\ StartsIncrease(g_log)
        /\ StartsIncrease(a_log)
        /\ Len(out_file) = Len(entries)
        /\ \A i \in 1..Len(entries) : out_file[i] = CsvRow(entries[i])

\* the acronym comes first in the source and last in the output
C6_Witness ==
    /\ pc = "exited"
    /\ exit_code = 0
    /\ tex_content = AcronymCpu \o GlossaryK1 \o GlossaryK1
    /\ out_file = << Foo \o <<",">> \o BarBaz \o <<"\r", "\n">>,
                     Foo \o <<",">> \o BarBaz \o <<"\r", "\n">>,
                     CPU \o <<",">> \o CentralProcessingUnit \o <<"\r", "\n">> >>

\* C7: a run ends with exit code 1 when the input file is missing, when no
\* entry is extracted or when an exception is raised while reading, parsing or
\* writing, and with exit code 0 otherwise, the output then being written.
C7_ExitCode ==
    IF pc = "exited"
    THEN /\ exit_code =
                IF ~input_exists \/ raised \/ Emitted(g_log) \o Emitted(a_log) = << >>
                THEN 1 ELSE 0
         /\ exit_code = 0 => out_opened /\ Len(out_file) = Len(entries)
    ELSE exit_code = -1

\* an I/O error while the rows are written ends the run with exit code 1
C7_Witness ==
    /\ pc = "exited"
    /\ exit_code = 1
    /\ raised
    /\ out_opened
    /\ Len(out_file) >= 1
    /\ Len(out_file) < Len(entries)

LastGroupPassed(text, log, n) ==
    \A i \in 1..Len(log) :
        LET gs == LocateGroups(text, log[i].start_pos, n)
        IN  Len(gs) = n =>
                /\ log[i].pos = gs[n].close + 1
                /\ \A j \in (i + 1)..Len(log) :
                       log[j].from >= log[i].pos /\ log[j].start_pos > gs[n].close

\* C8: after an occurrence whose groups were all located the scan position is
\* the index just past the last group's closing brace, and no later match
\* starts inside the groups already consumed.
C8_NoRematch ==
    pc = "parse_all_entries" =>
        /\ LastGroupPassed(tex_content, g_log, 2)
        /\ LastGroupPassed(tex_content, a_log, 3)

NestedOccurrence(text, log, pattern) ==
    \E i \in 1..Len(log) : \E s \in Occurrences(text, pattern) :
        log[i].consumed /\ log[i].start_pos < s /\ s < log[i].group_end

\* both scans are over and each passed a command name inside a consumed group
C8_Witness ==
    /\ pc = "parse_all_entries"
    /\ NestedOccurrence(tex_content, g_log, GlossaryPattern)
    /\ NestedOccurrence(tex_content, a_log, AcronymPattern)
    /\ Len(g_log) = 1
    /\ Len(a_log) = 1

Scanning(p) == p \in {"parse_glossary_entries", "parse_acronym_entries"}

\* C9: on every iteration of either scan loop the scan position strictly
\* increases, on the skip paths and on the consumed path, and stays within the
\* buffer, so the loop reaches the end of the buffer and returns.
C9_ScanAdvances ==
    [][(Scanning(pc) /\ pc' = pc) => (pos < pos' /\ pos' <= Len(tex_content))]_vars

\* both loops have skipped one occurrence and consumed another
C9_Witness ==
    /\ pc = "parse_all_entries"
    /\ \E i, j \in 1..Len(g_log) : g_log[i].consumed /\ ~g_log[j].consumed
    /\ \E i, j \in 1..Len(a_log) : a_log[i].consumed /\ ~a_log[j].consumed

\* C10: the output is opened, and truncated, only after the input was found and
\* read and at least one entry was extracted; a run that ends on the missing
\* input or on the zero-entries path leaves an existing output file unchanged.
C10_WriteLast ==
    /\ (out_opened \/ out_file # OldRows) =>
          /\ input_exists
          /\ tex_content = file_content
          /\ entries # << >>
          /\ pc \in {"write_rows", "exited"}
    /\ (pc = "exited" /\ (~input_exists \/ (~raised /\ entries = << >>))) =>
          ~out_opened /\ out_file = OldRows

\* the run ended on the zero-entries path with the old output in place
C10_Witness ==
    /\ pc = "exited"
    /\ exit_code = 1
    /\ input_exists
    /\ ~raised
    /\ tex_content # << >>
    /\ entries = << >>
    /\ out_file = OldRows

====
